---- MODULE Spec2Model ----
(***************************************************************************)
(* Cyrus / Perseus: a Redis response cache for FastAPI handlers.          *)
(*                                                                         *)
(* The model follows one process: the Cyrus singleton (client.py), the    *)
(* connection helper (redis.py), the serialization helpers (util.py) and  *)
(* the decorator cache.inner_wrapper (cache.py).  A decorated call is a   *)
(* coroutine whose only suspension point is the await of the wrapped      *)
(* handler, so a call is two steps: Begin (up to the await or to the      *)
(* return of the hit path) and Finish (from the handler's result to the   *)
(* return).  Redis commands are synchronous and atomic.                   *)
(*                                                                         *)
(* Spec      one call at a time, with startup, connection outcomes and     *)
(*           the expiry of entries                                         *)
(* ConcSpec  the calls of two workers interleaved, client connected        *)
(* RaceSpec  the calls of two workers interleaved with the expiry of       *)
(*           entries, client connected                                     *)
(* KeySpec   the key builder (key_gen.py) applied to one input after the   *)
(*           other                                                         *)
(* CodecSpec serialize_json and deserialize_json (util.py) applied to a    *)
(*           value                                                         *)
(***************************************************************************)
EXTENDS Integers, Sequences, FiniteSets, TLC

(***************************************************************************)
(* Bounds of the model.                                                    *)
(***************************************************************************)
MaxTicks == 1
MaxAttempts == 2

Workers == {"w1", "w2"}
SeqWorkers == {"w1"}
ArgVals == {1, 2}

(***************************************************************************)
(* util.py constants.                                                      *)
(***************************************************************************)
ONE_HOUR_IN_SECONDS == 3600
ONE_DAY_IN_SECONDS == ONE_HOUR_IN_SECONDS * 24
ONE_YEAR_IN_SECONDS == ONE_DAY_IN_SECONDS * 365

(* http.HTTPStatus.NOT_MODIFIED and the default status of a Response *)
NOT_MODIFIED == 304
HTTP_OK == 200

(* client.py *)
ALLOWED_HTTP_TYPES == {"GET"}
NonCacheDirectives == <<"no-store", "no-cache">>

(***************************************************************************)
(* Python values.  A value is a record [t, v]: its type and its payload.   *)
(* An object is its __dict__, a function from attribute names to values.   *)
(* A handler result is a single object or a list of objects.              *)
(***************************************************************************)
IntV(n) == [t |-> "int", v |-> ToString(n)]
StrV(s) == [t |-> "str", v |-> s]
DecimalV(s) == [t |-> "Decimal", v |-> s]
DatetimeV(s) == [t |-> "datetime", v |-> s]
InstanceStateV == [t |-> "InstanceState", v |-> "state"]
DateV(s) == [t |-> "date", v |-> s]
NoneValue == [t |-> "NoneType", v |-> "None"]

(* a mapping is its entries, a function from names to values; a sequence   *)
(* is its elements                                                         *)
DictV(items) == [t |-> "dict", items |-> items]
ListV(elems) == [t |-> "list", elems |-> elems]

(* str(datetime), str(date), str(Decimal) and the str of a type the        *)
(* decoder has no entry for                                                *)
TagDatetime == "<class 'datetime.datetime'>"
TagDate == "<class 'datetime.date'>"
TagDecimal == "<class 'decimal.Decimal'>"
TagUnknown == "<class 'uuid.UUID'>"

(* an envelope as CustomJsonEncoder writes it *)
Envelope(tag, val) == DictV([_spec_type |-> StrV(tag), val |-> StrV(val)])

ObjA == [id |-> IntV(1), _sa_instance_state |-> InstanceStateV]
ObjB == [id |-> IntV(2), created |-> DatetimeV("2024-01-15T10:30:00"),
         ref |-> Envelope(TagUnknown, "6f1c")]
ObjBad == [id |-> IntV(3), price |-> DecimalV("19.99")]

Single(o) == [shape |-> "object", of |-> <<o>>]
List(os) == [shape |-> "list", of |-> os]

Results ==
    { Single(ObjA), List(<<ObjA, ObjB>>), List(<<>>), Single(ObjBad) }

(* hasattr(value, "__len__") *)
HasLen(value) == value.shape = "list"

(***************************************************************************)
(* Texts.  A text is a record [fmt, shape, of]: how it was rendered        *)
(* (json.dumps or str), the shape of the rendered value, and its items.    *)
(* A Python dict with at most one entry (the wrapping object) is a         *)
(* function whose domain is empty or holds the entry's name.               *)
(***************************************************************************)
NoneV == [fmt |-> "None", shape |-> "None", of |-> <<>>]
Raw(value) == [fmt |-> "object", shape |-> value.shape, of |-> value.of]

SameText(a, b) ==
    /\ a.fmt = b.fmt
    /\ a.shape = b.shape
    /\ Len(a.of) = Len(b.of)
    /\ a.of = b.of

(* json.dumps / json.loads / str *)
json_dumps(shape, items) == [fmt |-> "json", shape |-> shape, of |-> items]
json_loads(text) == text.of
str(shape, items) == [fmt |-> "str", shape |-> shape, of |-> items]

(* json.dumps raises TypeError on a value the JSON encoder does not know *)
RECURSIVE JsonNative(_)
JsonNative(val) ==
    CASE val.t = "dict" -> \A k \in DOMAIN val.items : JsonNative(val.items[k])
      [] val.t = "list" -> \A i \in 1..Len(val.elems) : JsonNative(val.elems[i])
      [] OTHER -> val.t \in {"int", "str", "bool", "float", "NoneType"}

(***************************************************************************)
(* util.py                                                                 *)
(***************************************************************************)
(* datetime.strftime(DATETIME_AWARE) of a naive timestamp: %z is empty *)
strftime_aware(stamp) ==
    CASE stamp = "2024-01-15T10:30:00" -> "01/15/2024 10:30:00 AM "
      [] stamp = "2024-01-15T10:30:00+00:00" -> "01/15/2024 10:30:00 AM +0000"
      [] OTHER -> stamp

(* CustomJsonEncoder, the dict branch: walks the entries one level deep *)
CustomJsonEncoder(obj) ==
    [key \in {k \in DOMAIN obj : obj[k].t # "InstanceState"} |->
        IF obj[key].t = "datetime" THEN StrV(strftime_aware(obj[key].v))
        ELSE IF obj[key].t = "Enum" THEN StrV(obj[key].v)
        ELSE obj[key]]

(* json.dumps(data) raises TypeError *)
DumpsRaises(data) == \E k \in DOMAIN data : ~JsonNative(data[k])

(* serialize_json(obj.__dict__) raises TypeError *)
serialize_json_raises(json_dict) == DumpsRaises(CustomJsonEncoder(json_dict))

(* serialize_json, the dict branch *)
serialize_json(json_dict) == json_dumps("dict", <<CustomJsonEncoder(json_dict)>>)

(* serialize_json, the list branch: one encoded __dict__ per element *)
serialize_json_list(objs) ==
    json_dumps("list", [i \in 1..Len(objs) |-> CustomJsonEncoder(objs[i])])

(* serialize_json of any value: a mapping takes the dict branch; anything  *)
(* else is iterated, which raises TypeError for a value that cannot be     *)
(* iterated and AttributeError for an element without __dict__             *)
serialize_json_value(val) ==
    CASE val.t = "dict" ->
            IF serialize_json_raises(val.items)
            THEN [raised |-> "TypeError", text |-> NoneV]
            ELSE [raised |-> "none", text |-> serialize_json(val.items)]
      [] val.t = "list" ->
            IF val.elems # <<>>
            THEN [raised |-> "AttributeError", text |-> NoneV]
            ELSE [raised |-> "none", text |-> json_dumps("list", <<>>)]
      [] val.t = "str" ->
            IF val.v # ""
            THEN [raised |-> "AttributeError", text |-> NoneV]
            ELSE [raised |-> "none", text |-> json_dumps("list", <<>>)]
      [] OTHER -> [raised |-> "TypeError", text |-> NoneV]

(* SERIALIZE_OBJ_MAP: the type each tag is decoded to (dateutil's parser   *)
(* gives a datetime for both date tags)                                    *)
SERIALIZE_OBJ_MAP ==
    (TagDatetime :> "datetime") @@ (TagDate :> "datetime") @@ (TagDecimal :> "Decimal")

(* object_hook raises TypeError: a _spec_type the map has no entry for *)
object_hook_raises(obj) ==
    /\ "_spec_type" \in DOMAIN obj
    /\ obj["_spec_type"].v \notin DOMAIN SERIALIZE_OBJ_MAP

(* object_hook *)
object_hook(obj) ==
    IF "_spec_type" \notin DOMAIN obj THEN DictV(obj)
    ELSE [t |-> SERIALIZE_OBJ_MAP[obj["_spec_type"].v], v |-> obj["val"].v]

(* json.loads(..., object_hook) on a parsed value: the hook is applied to  *)
(* every mapping, the innermost first                                      *)
RECURSIVE LoadsRaises(_)
LoadsRaises(val) ==
    CASE val.t = "dict" ->
            \/ \E k \in DOMAIN val.items : LoadsRaises(val.items[k])
            \/ object_hook_raises(val.items)
      [] val.t = "list" -> \E i \in 1..Len(val.elems) : LoadsRaises(val.elems[i])
      [] OTHER -> FALSE

RECURSIVE Loads(_)
Loads(val) ==
    CASE val.t = "dict" ->
            object_hook([k \in DOMAIN val.items |-> Loads(val.items[k])])
      [] val.t = "list" -> ListV([i \in 1..Len(val.elems) |-> Loads(val.elems[i])])
      [] OTHER -> val

(* the value a JSON text holds: the wrapping object of a stored entry      *)
(* holds a list of strings, which are leaves for the parser                *)
Parsed(text) ==
    CASE text.shape = "dict" -> DictV(text.of[1])
      [] text.shape = "wrapper" ->
            DictV([k \in DOMAIN text.of[1] |-> StrV("json")])
      [] OTHER -> ListV([i \in 1..Len(text.of) |-> DictV(text.of[i])])

(* deserialize_json *)
deserialize_json(json_str) ==
    IF LoadsRaises(Parsed(json_str))
    THEN [raised |-> "TypeError", value |-> NoneValue]
    ELSE [raised |-> "none", value |-> Loads(Parsed(json_str))]

(* the values given to the serialization helpers: scalars, timestamps,     *)
(* dates, decimals, mappings of them under one or two names, nested        *)
(* mappings, envelopes and sequences                                       *)
CodecScalars ==
    { IntV(1), StrV("a"), StrV(""), NoneValue,
      DatetimeV("2024-01-15T10:30:00+00:00"), DateV("2024-01-15"),
      DecimalV("19.99") }

CodecValues ==
    CodecScalars
    \cup { DictV([k \in {"a"} |-> val]) : val \in CodecScalars }
    \cup { DictV(items) : items \in [{"a", "b"} -> CodecScalars] }
    \cup { DictV([k \in {} |-> NoneValue]),
           DictV([a |-> DictV([b |-> IntV(1)])]),
           DictV([a |-> DictV([b |-> DecimalV("19.99")])]),
           DictV([a |-> ListV(<<IntV(1), StrV("a")>>)]),
           DictV([a |-> Envelope(TagUnknown, "6f1c")]),
           ListV(<<>>), ListV(<<IntV(1)>>), ListV(<<DictV([a |-> IntV(1)])>>) }

(* a value not encoded yet *)
Unencoded(val) ==
    [val |-> val, stage |-> "value", raised |-> "none", text |-> NoneV,
     out |-> NoneValue]

(***************************************************************************)
(* key_gen.py.  A function is its module, its name and its declared        *)
(* parameters in order; a call is its positional arguments and its keyword *)
(* arguments in the order the caller wrote them.                           *)
(***************************************************************************)
ALWAYS_IGNORE_ARG_TYPES == {"Response", "Request"}

RequestV == [t |-> "Request", v |-> "<Request>"]
ResponseV == [t |-> "Response", v |-> "<Response>"]

Param(name, annotation) ==
    [name |-> name, annotation |-> annotation, has_default |-> FALSE,
     default |-> NoneValue]
ParamDefault(name, annotation, default) ==
    [name |-> name, annotation |-> annotation, has_default |-> TRUE,
     default |-> default]

(* def handler(x: int, y: int = 0, request: Request = None,               *)
(*             response: Response = None)                                  *)
handler ==
    [module |-> "api", name |-> "handler",
     params |-> << Param("x", "int"), ParamDefault("y", "int", IntV(0)),
                   ParamDefault("request", "Request", NoneValue),
                   ParamDefault("response", "Response", NoneValue) >>]

Arg(name, val) == [name |-> name, val |-> val]
Call(args, kwargs) == [args |-> args, kwargs |-> kwargs]

HasName(pairs, name) == \E i \in 1..Len(pairs) : pairs[i].name = name
ValueOf(pairs, name) ==
    pairs[CHOOSE i \in 1..Len(pairs) : pairs[i].name = name].val

(* the call gives every parameter one value, or none where the parameter   *)
(* has a default, and names no parameter the function does not declare     *)
MatchesSignature(params, args, kwargs) ==
    /\ Len(args) <= Len(params)
    /\ \A i \in 1..Len(params) :
          LET given == (IF i <= Len(args) THEN 1 ELSE 0)
                       + (IF HasName(kwargs, params[i].name) THEN 1 ELSE 0)
          IN  given = 1 \/ (given = 0 /\ params[i].has_default)
    /\ \A j \in 1..Len(kwargs) :
          \E i \in 1..Len(params) : params[i].name = kwargs[j].name

(* Signature.bind accepting a keyword for a parameter that already has a   *)
(* positional value                                                        *)
BindRaises_unless_repeated(params, args, kwargs) ==
    \/ Len(args) > Len(params)
    \/ \E i \in (Len(args) + 1)..Len(params) :
          ~HasName(kwargs, params[i].name) /\ ~params[i].has_default
    \/ \E j \in 1..Len(kwargs) :
          \A i \in 1..Len(params) : params[i].name # kwargs[j].name

(* Signature.bind raises TypeError: too many positional arguments, several *)
(* values for one parameter, a required parameter left out, or a keyword   *)
(* no parameter has                                                        *)
BindRaises(params, args, kwargs) ==
    \/ Len(args) > Len(params)
    \/ \E i \in 1..Len(args) :
          i <= Len(params) /\ HasName(kwargs, params[i].name)
    \/ \E i \in (Len(args) + 1)..Len(params) :
          ~HasName(kwargs, params[i].name) /\ ~params[i].has_default
    \/ \E j \in 1..Len(kwargs) :
          \A i \in 1..Len(params) : params[i].name # kwargs[j].name

(* get_func_args leaving the arguments in the order of the call: the       *)
(* positional ones, the keywords as the caller wrote them, the defaults    *)
get_func_args_call_order(params, args, kwargs) ==
    IF ~MatchesSignature(params, args, kwargs)
    THEN [raised |-> "TypeError", arguments |-> <<>>]
    ELSE LET NotGiven(q) == ~HasName(kwargs, q.name)
             rest == SelectSeq(SubSeq(params, Len(args) + 1, Len(params)), NotGiven)
         IN  [raised |-> "none",
              arguments |->
                  [i \in 1..Len(args) |-> Arg(params[i].name, args[i])]
                  \o kwargs
                  \o [i \in 1..Len(rest) |-> Arg(rest[i].name, rest[i].default)]]

(* get_func_args: sig.bind, then apply_defaults; the arguments come in     *)
(* declared parameter order                                                *)
get_func_args(params, args, kwargs) ==
    IF BindRaises(params, args, kwargs)
    THEN [raised |-> "TypeError", arguments |-> <<>>]
    ELSE [raised |-> "none",
          arguments |->
              [i \in 1..Len(params) |->
                  Arg(params[i].name,
                      IF i <= Len(args) THEN args[i]
                      ELSE IF HasName(kwargs, params[i].name)
                           THEN ValueOf(kwargs, params[i].name)
                      ELSE params[i].default)]]

(* ",".join(parts) *)
RECURSIVE Join(_, _)
Join(sep, parts) ==
    IF parts = <<>> THEN ""
    ELSE IF Len(parts) = 1 THEN parts[1]
    ELSE parts[1] \o sep \o Join(sep, Tail(parts))

(* f"{val}" *)
Format(val) == val.v

(* get_args_str *)
get_args_str(sig_params, func_args, ignore_arg_types) ==
    LET Annotation(name) ==
            sig_params[CHOOSE i \in 1..Len(sig_params) : sig_params[i].name = name].annotation
        Valid(a) == Annotation(a.name) \notin ignore_arg_types
        kept == SelectSeq(func_args, Valid)
    IN  Join(",", [i \in 1..Len(kept) |-> kept[i].name \o "=" \o Format(kept[i].val)])

(* get_cache_key of a call Signature.bind accepts *)
get_cache_key(prefix, ignore_arg_types, func, args, kwargs) ==
    LET ignore == ignore_arg_types \cup ALWAYS_IGNORE_ARG_TYPES
        pre == IF prefix # "" THEN prefix \o ":" ELSE ""
        func_args == get_func_args(func.params, args, kwargs)
        args_str == get_args_str(func.params, func_args.arguments, ignore)
    IN  pre \o func.module \o "." \o func.name \o "(" \o args_str \o ")"

(* the calls of the decorated handler: x by position, x and y by keyword   *)
(* in the other order, and a call that gives x twice                       *)
HandlerCalls ==
    { Call(<<IntV(1)>>, <<>>),
      Call(<<>>, <<Arg("y", IntV(0)), Arg("x", IntV(2))>>),
      Call(<<IntV(1)>>, <<Arg("x", IntV(2))>>) }

(* the inputs of the key builder: prefix, ignored types, arguments *)
KeyInput(prefix, ignore_arg_types, call) ==
    [prefix |-> prefix, ignore |-> ignore_arg_types,
     args |-> call.args, kwargs |-> call.kwargs]

KeyCalls ==
    { Call(<<IntV(1)>>, <<>>),
      Call(<<IntV(1), IntV(0)>>, <<>>),
      Call(<<IntV(1)>>, <<Arg("y", IntV(1))>>),
      Call(<<>>, <<Arg("x", IntV(1)), Arg("y", IntV(0))>>),
      Call(<<>>, <<Arg("y", IntV(0)), Arg("x", IntV(1))>>),
      Call(<<>>, <<Arg("x", IntV(2)), Arg("y", IntV(0))>>),
      Call(<<>>, <<Arg("y", IntV(0)), Arg("x", IntV(2))>>),
      Call(<<>>, <<Arg("request", RequestV), Arg("x", IntV(1))>>),
      Call(<<StrV("1")>>, <<>>),
      Call(<<NoneValue>>, <<>>),
      Call(<<StrV("None")>>, <<>>),
      Call(<<>>, <<>>),
      Call(<<IntV(1)>>, <<Arg("x", IntV(2))>>),
      Call(<<>>, <<Arg("x", IntV(1)), Arg("z", IntV(3))>>) }

KeyInputs ==
    { KeyInput(prefix, ignore, call) :
          prefix \in {"", "app"}, ignore \in {{}, {"int"}}, call \in KeyCalls }

(* a key not built yet, and the key built from an input *)
Unbuilt(inp) == [inp |-> inp, done |-> FALSE, raised |-> "none", key |-> ""]
NoKey == Unbuilt(KeyInput("", {}, Call(<<>>, <<>>)))
Built(inp) ==
    LET func_args == get_func_args(handler.params, inp.args, inp.kwargs)
    IN  [inp |-> inp, done |-> TRUE, raised |-> func_args.raised,
         key |-> IF func_args.raised # "none" THEN ""
                 ELSE get_cache_key(inp.prefix, inp.ignore, handler,
                                    inp.args, inp.kwargs)]

(* Cyrus() of inner_wrapper passes no prefix and no ignore_arg_types *)
Keys ==
    { get_cache_key("", {}, handler, <<IntV(x)>>, <<>>) : x \in ArgVals }

(***************************************************************************)
(* Requests.  A header value is a sequence of symbols: Cache-Control is a  *)
(* sequence of words, If-None-Match a sequence of characters, where "t"    *)
(* stands for the characters of an entity tag.                            *)
(***************************************************************************)
NoRequest ==
    [present |-> FALSE, method |-> "", cc |-> <<>>, has_inm |-> FALSE, inm |-> <<>>]
Get(cc) ==
    [present |-> TRUE, method |-> "GET", cc |-> cc, has_inm |-> FALSE, inm |-> <<>>]
GetIfNoneMatch(inm) ==
    [present |-> TRUE, method |-> "GET", cc |-> <<>>, has_inm |-> TRUE, inm |-> inm]
Post ==
    [present |-> TRUE, method |-> "POST", cc |-> <<>>, has_inm |-> FALSE, inm |-> <<>>]

Requests ==
    { NoRequest, Post,
      Get(<<>>), Get(<<"no-cache">>), Get(<<"max-age=0", ",", "no-store">>),
      GetIfNoneMatch(<<"*">>), GetIfNoneMatch(<<"t", ",", " ", "*">>) }

(* needle in haystack, for str *)
Contains(needle, haystack) ==
    \E i \in 1..(Len(haystack) - Len(needle) + 1) :
        SubSeq(haystack, i, i + Len(needle) - 1) = needle

(* str.split(",") *)
RECURSIVE Split(_)
Split(chars) ==
    IF \E i \in 1..Len(chars) : chars[i] = ","
    THEN LET i == CHOOSE i \in 1..Len(chars) :
                      /\ chars[i] = ","
                      /\ \A j \in 1..(i - 1) : chars[j] # ","
         IN  <<SubSeq(chars, 1, i - 1)>> \o Split(SubSeq(chars, i + 1, Len(chars)))
    ELSE <<chars>>

(* str.strip() *)
RECURSIVE Strip(_)
Strip(chars) ==
    IF chars # <<>> /\ chars[1] = " " THEN Strip(Tail(chars))
    ELSE IF chars # <<>> /\ chars[Len(chars)] = " "
         THEN Strip(SubSeq(chars, 1, Len(chars) - 1))
    ELSE chars

(***************************************************************************)
(* redis.py: what the server does to the one connection attempt.          *)
(* The constructor call is inside the try, the ping is after it.          *)
(***************************************************************************)
ConnOutcomes ==
    { "ctor_AuthenticationError", "ctor_ConnectionError",
      "ping_True", "ping_False",
      "ping_AuthenticationError", "ping_ConnectionError" }

_connect_generic(outcome) ==
    CASE outcome \in {"ctor_AuthenticationError", "ctor_ConnectionError"} ->
            [raised |-> "none", status |-> "CONN_ERROR"]
      [] outcome = "ping_True" ->
            [raised |-> "none", status |-> "CONNECTED"]
      [] outcome = "ping_False" ->
            [raised |-> "none", status |-> "CONN_ERROR"]
      [] outcome = "ping_AuthenticationError" ->
            [raised |-> "AuthenticationError", status |-> "NONE"]
      [] outcome = "ping_ConnectionError" ->
            [raised |-> "ConnectionError", status |-> "NONE"]

redis_connect(outcome) == _connect_generic(outcome)

(***************************************************************************)
(* cache.py: calculate_ttl.  An expiration is an int (seconds) or a        *)
(* timedelta (days, seconds, microseconds, normalised as Python does).    *)
(***************************************************************************)
IntExpire(n) == [td |-> FALSE, days |-> 0, seconds |-> n, microseconds |-> 0]
Timedelta(d, sec, us) == [td |-> TRUE, days |-> d, seconds |-> sec, microseconds |-> us]

(* int(expire.total_seconds()): truncation toward zero *)
IntTotalSeconds(expire) ==
    LET whole == expire.days * ONE_DAY_IN_SECONDS + expire.seconds
    IN  IF whole < 0 /\ expire.microseconds > 0 THEN whole + 1 ELSE whole

Min(a, b) == IF a <= b THEN a ELSE b

(* calculate_ttl without the cap *)
calculate_ttl_uncapped(expire) ==
    IF expire.td THEN IntTotalSeconds(expire) ELSE expire.seconds

calculate_ttl(expire) ==
    LET seconds == IF expire.td THEN IntTotalSeconds(expire) ELSE expire.seconds
    IN  Min(seconds, ONE_YEAR_IN_SECONDS)

Expirations ==
    { IntExpire(10), Timedelta(0, 2, 500000), Timedelta(400, 0, 0) }

(***************************************************************************)
(* The key/value store: per key the stored text and its remaining TTL.    *)
(* For an absent key GET answers None and TTL answers -2.                 *)
(***************************************************************************)
KEY_ABSENT_TTL == 0 - 2
NoEntry == [text |-> NoneV, ttl |-> KEY_ABSENT_TTL]

(* truth value of the bytes GET returned *)
Truthy(in_cache) == in_cache.fmt # "None"

(***************************************************************************)
(* client.py                                                               *)
(***************************************************************************)
(* check_cache looking up a name no entry is stored under *)
check_cache_other_name(st, key) == [ttl |-> KEY_ABSENT_TTL, in_cache |-> NoneV]

(* check_cache as two round trips, TTL after GET: the key expires between  *)
(* the two                                                                 *)
check_cache_two_round_trips(st, key) ==
    [ttl |-> KEY_ABSENT_TTL, in_cache |-> st[key].text]

(* Cyrus.check_cache: TTL and GET in one pipeline *)
check_cache(st, key) == [ttl |-> st[key].ttl, in_cache |-> st[key].text]

(* request_is_not_cacheable written as: not request or (...) *)
request_is_not_cacheable_without_request(request) ==
    \/ ~request.present
    \/ request.method \notin ALLOWED_HTTP_TYPES
    \/ \E i \in 1..Len(NonCacheDirectives) :
           Contains(<<NonCacheDirectives[i]>>, request.cc)

(* Cyrus.request_is_not_cacheable: request and (...) *)
request_is_not_cacheable(request) ==
    /\ request.present
    /\ \/ request.method \notin ALLOWED_HTTP_TYPES
       \/ \E i \in 1..Len(NonCacheDirectives) :
              Contains(<<NonCacheDirectives[i]>>, request.cc)

(* the list check_etags of requested_resource_not_modified *)
CheckEtags(header) ==
    LET NonEmpty(etag) == etag # <<>>
        kept == SelectSeq(Split(header), NonEmpty)
    IN  [i \in 1..Len(kept) |-> Strip(kept[i])]

(* Cyrus.requested_resource_not_modified: "True", "False", or the          *)
(* AttributeError of self.get_etag, which the class does not define       *)
requested_resource_not_modified(request, cached_data) ==
    IF ~request.present \/ ~request.has_inm THEN "False"
    ELSE LET check_etags == CheckEtags(request.inm)
         IN  IF Len(check_etags) = 1 /\ check_etags[1] = <<"*">> THEN "True"
             ELSE "AttributeError"

(* add_to_cache issuing redis.set before the serialization is known to succeed *)
add_to_cache_set_first(key, value, expire, set_ok) ==
    LET type_error == \E i \in 1..Len(value.of) : serialize_json_raises(value.of[i])
        serialized_messages ==
            [i \in 1..Len(value.of) |-> serialize_json(value.of[i])]
        serialized_dict ==
            IF serialized_messages # <<>>
            THEN [k \in {key} |-> serialized_messages]
            ELSE [k \in {} |-> <<>>]
    IN  [pair |-> ~type_error, set |-> TRUE, cached |-> set_ok,
         serialized_dict |-> serialized_dict,
         value |-> json_dumps("wrapper", <<serialized_dict>>), ex |-> expire]

(* no expiration: the TTL the store answers for a key that never expires   *)
NO_EXPIRY_TTL == 0 - 1

(* add_to_cache calling redis.set without ex *)
add_to_cache_without_ex(key, value, expire, set_ok) ==
    LET type_error == \E i \in 1..Len(value.of) : serialize_json_raises(value.of[i])
        serialized_messages ==
            [i \in 1..Len(value.of) |-> serialize_json(value.of[i])]
        serialized_dict ==
            IF serialized_messages # <<>>
            THEN [k \in {key} |-> serialized_messages]
            ELSE [k \in {} |-> <<>>]
    IN  IF type_error
        THEN [pair |-> FALSE, set |-> FALSE, cached |-> FALSE,
              serialized_dict |-> [k \in {} |-> <<>>], value |-> NoneV, ex |-> 0]
        ELSE [pair |-> TRUE, set |-> TRUE, cached |-> set_ok,
              serialized_dict |-> serialized_dict,
              value |-> json_dumps("wrapper", <<serialized_dict>>),
              ex |-> NO_EXPIRY_TTL]

(* Cyrus.add_to_cache: a bare False when serialization raises TypeError,   *)
(* otherwise the pair (cached, serialized_dict) after redis.set           *)
add_to_cache(key, value, expire, set_ok) ==
    LET type_error == \E i \in 1..Len(value.of) : serialize_json_raises(value.of[i])
        serialized_messages ==
            [i \in 1..Len(value.of) |-> serialize_json(value.of[i])]
        serialized_dict ==
            IF serialized_messages # <<>>
            THEN [k \in {key} |-> serialized_messages]
            ELSE [k \in {} |-> <<>>]
    IN  IF type_error
        THEN [pair |-> FALSE, set |-> FALSE, cached |-> FALSE,
              serialized_dict |-> [k \in {} |-> <<>>], value |-> NoneV, ex |-> 0]
        ELSE [pair |-> TRUE, set |-> TRUE, cached |-> set_ok,
              serialized_dict |-> serialized_dict,
              value |-> json_dumps("wrapper", <<serialized_dict>>), ex |-> expire]

(* redis.set that leaves a key alone once it holds a value *)
StoreAfterSet_unless_present(st, key, added) ==
    IF added.set /\ added.cached /\ ~Truthy(st[key].text)
    THEN [st EXCEPT ![key] = [text |-> added.value, ttl |-> added.ex]]
    ELSE st

(* the store after add_to_cache: redis.set(name, value, ex) *)
StoreAfterSet(st, key, added) ==
    IF added.set /\ added.cached
    THEN [st EXCEPT ![key] = [text |-> added.value, ttl |-> added.ex]]
    ELSE st

(* Cyrus.set_response_headers *)
NoHeaders == [cache |-> "", max_age |-> 0 - 1, expires_in |-> 0 - 1]
set_response_headers(cache_hit, ttl) ==
    [cache |-> IF cache_hit THEN "Hit" ELSE "Miss", max_age |-> ttl, expires_in |-> ttl]

(***************************************************************************)
(* cache.py: create_response.  The Response built directly carries only    *)
(* Content-Length; len(None) raises TypeError.                            *)
(***************************************************************************)
create_response(response, content, create_directly) ==
    IF create_directly
    THEN IF content.fmt = "None"
         THEN [raised |-> "TypeError", is_response |-> FALSE, content |-> NoneV,
               status_code |-> response.status_code, headers |-> NoHeaders]
         ELSE [raised |-> "none", is_response |-> TRUE, content |-> content,
               status_code |-> response.status_code, headers |-> NoHeaders]
    ELSE [raised |-> "none", is_response |-> FALSE, content |-> content,
          status_code |-> response.status_code, headers |-> response.headers]

(***************************************************************************)
(* State.                                                                  *)
(*   created   MetaSingleton._instances holds the Cyrus instance          *)
(*   status    Cyrus.status                                                *)
(*   attempts  number of runs of Cyrus._connect so far                     *)
(*   cause     what the server did to the latest run of Cyrus._connect     *)
(*   expire    the expire argument of the decoration                       *)
(*   store     the key/value store                                         *)
(*   inflight  per worker, the call suspended at the await of the handler  *)
(*   last      the record of the call that returned or raised last, until  *)
(*             the next call suspends at its await; its field fits tells   *)
(*             whether the caller's arguments match the handler signature  *)
(*   served    per key, the body returned by the miss that wrote the entry *)
(*   lapsed    the keys whose entry expired and was not written again; a   *)
(*             call records whether its key was one of them at its lookup  *)
(*   keygen    the key builder on its own: the key being built from an     *)
(*             input, and the one built before it                          *)
(*   codec     the serialization helpers on their own: a value, its        *)
(*             encoded text and the value decoded from the text            *)
(***************************************************************************)
VARIABLES created, status, attempts, cause, expire, store, inflight, last, served,
          lapsed, keygen, codec

vars ==
    <<created, status, attempts, cause, expire, store, inflight, last, served,
      lapsed, keygen, codec>>

(* the state of the cache engine *)
engine ==
    <<created, status, attempts, cause, expire, store, inflight, last, served, lapsed>>

FreshResponse == [headers |-> NoHeaders, status_code |-> HTTP_OK]

Raised(exc, response) ==
    [raised |-> exc, is_response |-> FALSE, content |-> NoneV,
     status_code |-> response.status_code, headers |-> NoHeaders]

Returned(value) ==
    [raised |-> "none", is_response |-> FALSE, content |-> Raw(value),
     status_code |-> HTTP_OK, headers |-> NoHeaders]

NoCall ==
    [req |-> NoRequest, passed |-> FALSE, fits |-> TRUE, key |-> "",
     path |-> "none", connected |-> FALSE, ret |-> Raised("none", FreshResponse),
     response |-> FreshResponse, invoked |-> 0, lookups |-> 0, stores |-> 0,
     found |-> NoneV, result |-> NoneV, set_ok |-> TRUE, ex |-> 0 - 1,
     lapsed |-> FALSE]

(***************************************************************************)
(* cache.py: inner_wrapper from the cacheability check to the await of     *)
(* the handler (path PASSTHROUGH or MISS) or to the end of the hit path.   *)
(***************************************************************************)
inner_wrapper_begin(request, passed, call, st_status, st) ==
    LET kwargs == call.kwargs
                  \o (IF request.present THEN <<Arg("request", RequestV)>> ELSE <<>>)
                  \o (IF passed THEN <<Arg("response", ResponseV)>> ELSE <<>>)
        func_args == get_func_args(handler.params, call.args, kwargs)
        base == [NoCall EXCEPT !.req = request, !.passed = passed,
                               !.fits = MatchesSignature(handler.params,
                                                         call.args, kwargs),
                               !.connected = (st_status = "CONNECTED")]
    IN
    IF st_status # "CONNECTED" \/ request_is_not_cacheable(request)
    THEN (* calling the handler: Python raises TypeError before its body *)
         IF func_args.raised # "none"
         THEN [base EXCEPT !.path = "PASSTHROUGH",
                           !.ret = Raised(func_args.raised, FreshResponse)]
         ELSE [base EXCEPT !.path = "PASSTHROUGH", !.invoked = 1]
    ELSE
    IF func_args.raised # "none"
    THEN [base EXCEPT !.path = "BIND", !.ret = Raised(func_args.raised, FreshResponse)]
    ELSE
    LET key == get_cache_key("", {}, handler, call.args, kwargs)
        looked == check_cache(st, key)
        keyed == [base EXCEPT !.key = key, !.lookups = 1, !.found = looked.in_cache]
    IN
    IF ~Truthy(looked.in_cache)
    THEN [keyed EXCEPT !.path = "MISS", !.invoked = 1]
    ELSE
    LET annotated == [FreshResponse EXCEPT
                         !.headers = set_response_headers(TRUE, looked.ttl)]
        not_modified == requested_resource_not_modified(request, looked.in_cache)
        d == json_loads(looked.in_cache)[1]
        converted_json_data ==
            IF key \in DOMAIN d THEN str("list", d[key]) ELSE str("dict", <<d>>)
    IN
    CASE LoadsRaises(Parsed(looked.in_cache)) ->
            (* deserialize_json(in_cache) raises *)
            [keyed EXCEPT !.path = "HIT",
                          !.ret = Raised(deserialize_json(looked.in_cache).raised,
                                         FreshResponse)]
      [] not_modified = "AttributeError" ->
            [keyed EXCEPT !.path = "HIT", !.response = annotated,
                          !.ret = Raised("AttributeError", annotated)]
      [] not_modified = "True" ->
            LET response == [annotated EXCEPT !.status_code = NOT_MODIFIED]
                made == create_response(response, NoneV, ~passed)
            IN  [keyed EXCEPT !.path = "NOT_MODIFIED", !.response = response,
                              !.ret = made]
      [] OTHER ->
            [keyed EXCEPT !.path = "HIT", !.response = annotated,
                          !.ret = create_response(annotated, converted_json_data, ~passed)]

(***************************************************************************)
(* cache.py: inner_wrapper after the handler returned response_data.       *)
(***************************************************************************)
inner_wrapper_finish(call, response_data, set_ok, exp) ==
    IF call.path = "PASSTHROUGH"
    THEN [call EXCEPT !.result = Raw(response_data), !.ret = Returned(response_data)]
    ELSE
    LET ttl == calculate_ttl(exp)
        added == add_to_cache(call.key, response_data, ttl, set_ok)
        got == [call EXCEPT !.result = Raw(response_data),
                            !.stores = IF added.set THEN 1 ELSE 0,
                            !.set_ok = IF added.set THEN added.cached ELSE TRUE,
                            !.ex = IF added.set THEN added.ex ELSE 0 - 1]
    IN
    IF ~added.pair
    THEN (* cached, serialized_dict = False *)
         [got EXCEPT !.ret = Raised("TypeError", FreshResponse)]
    ELSE IF added.cached
    THEN LET response == [FreshResponse EXCEPT
                             !.headers = set_response_headers(FALSE, ttl)]
             content == IF HasLen(response_data)
                        THEN serialize_json_list(response_data.of)
                        ELSE added.serialized_dict[call.key][1]
         IN  [got EXCEPT !.response = response,
                         !.ret = create_response(response, content, ~call.passed)]
    ELSE [got EXCEPT !.ret = Returned(response_data)]

(***************************************************************************)
(* client.py: Cyrus(...) through MetaSingleton.__call__.  The instance is  *)
(* registered only when __init__, which runs _connect, returns.           *)
(***************************************************************************)
Cyrus(outcome, is_created, st_status) ==
    IF is_created
    THEN [created |-> TRUE, status |-> st_status, raised |-> "none", connects |-> 0,
          cause |-> "none"]
    ELSE LET got == redis_connect(outcome)
         IN  IF got.raised # "none"
             THEN [created |-> FALSE, status |-> st_status,
                   raised |-> got.raised, connects |-> 1, cause |-> outcome]
             ELSE [created |-> TRUE, status |-> got.status,
                   raised |-> "none", connects |-> 1, cause |-> outcome]

TypeOK ==
    /\ created \in BOOLEAN
    /\ status \in {"NONE", "CONNECTED", "AUTH_ERROR", "CONN_ERROR"}
    /\ attempts \in 0..MaxAttempts
    /\ cause \in {"none"} \cup ConnOutcomes
    /\ expire \in Expirations
    /\ DOMAIN store = Keys
    /\ DOMAIN inflight = Workers
    /\ lapsed \subseteq Keys

ProcessStart ==
    /\ created = FALSE
    /\ status = "NONE"
    /\ attempts = 0
    /\ cause = "none"
    /\ expire \in Expirations
    /\ store = [k \in Keys |-> NoEntry]
    /\ inflight = [w \in Workers |-> NoCall]
    /\ last = NoCall
    /\ served = [k \in Keys |-> NoneV]
    /\ lapsed = {}

Init ==
    /\ ProcessStart
    /\ keygen = [cur |-> NoKey, prev |-> NoKey]
    /\ codec = Unencoded(NoneValue)

(* the application constructs the client at startup *)
Startup ==
    /\ ~created
    /\ attempts < MaxAttempts
    /\ \E outcome \in ConnOutcomes :
          LET made == Cyrus(outcome, created, status)
          IN  /\ created' = made.created
              /\ status' = made.status
              /\ attempts' = attempts + made.connects
              /\ cause' = IF made.connects = 1 THEN made.cause ELSE cause
    /\ UNCHANGED <<expire, store, inflight, last, served, lapsed, keygen, codec>>

(* a decorated handler is called with one of the requests: inner_wrapper   *)
(* up to its first await                                                   *)
BeginOf(w, requests) ==
    /\ inflight[w].path = "none"
    /\ created \/ attempts < MaxAttempts
    /\ \E request \in requests, passed \in BOOLEAN, args \in HandlerCalls,
          outcome \in (IF created THEN {"ping_True"} ELSE ConnOutcomes) :
          \E made \in {Cyrus(outcome, created, status)} :
          \E call \in {inner_wrapper_begin(request, passed, args, made.status, store)} :
              /\ created' = made.created
              /\ status' = made.status
              /\ attempts' = attempts + made.connects
              /\ cause' = IF made.connects = 1 THEN made.cause ELSE cause
              /\ IF made.raised # "none"
                 THEN /\ last' = [NoCall EXCEPT
                                     !.req = request, !.passed = passed,
                                     !.path = "CONNECT",
                                     !.ret = Raised(made.raised, FreshResponse)]
                      /\ UNCHANGED inflight
                 ELSE IF call.invoked = 1
                 THEN /\ inflight' = [inflight EXCEPT
                                         ![w] = [call EXCEPT !.lapsed = call.key \in lapsed]]
                      /\ last' = NoCall
                 ELSE /\ last' = call
                      /\ UNCHANGED inflight
    /\ UNCHANGED <<expire, store, served, lapsed, keygen, codec>>

Begin(w) == BeginOf(w, Requests)

(* the handler returns: inner_wrapper from the await to its return *)
Finish(w) ==
    /\ inflight[w].path # "none"
    /\ \E response_data \in Results, set_ok \in BOOLEAN :
          \E call \in {inflight[w]} :
          \E done \in {inner_wrapper_finish(call, response_data, set_ok, expire)} :
          \E added \in {add_to_cache(call.key, response_data,
                                     calculate_ttl(expire), set_ok)} :
          LET wrote == call.path = "MISS" /\ added.set /\ added.cached
          IN  /\ last' = done
              /\ store' = IF call.path = "MISS"
                          THEN StoreAfterSet(store, call.key, added)
                          ELSE store
              /\ served' = IF wrote
                           THEN [served EXCEPT ![call.key] = done.ret.content]
                           ELSE served
              /\ lapsed' = IF wrote THEN lapsed \ {call.key} ELSE lapsed
    /\ inflight' = [inflight EXCEPT ![w] = NoCall]
    /\ UNCHANGED <<created, status, attempts, cause, expire, keygen, codec>>

(* time passes: the store counts every TTL down and drops expired keys *)
TickSteps == {1, ONE_YEAR_IN_SECONDS}

Aged(entry, d) ==
    IF entry.ttl = NO_EXPIRY_TTL THEN entry
    ELSE IF ~Truthy(entry.text) \/ entry.ttl - d <= 0 THEN NoEntry
    ELSE [entry EXCEPT !.ttl = @ - d]

(* a one-second step is taken while no entry has aged MaxTicks seconds *)
MayAge(d) ==
    \/ d > 1
    \/ \A k \in Keys :
          Truthy(store[k].text) => store[k].ttl > calculate_ttl(expire) - MaxTicks

Tick ==
    /\ \E k \in Keys : Truthy(store[k].text)
    /\ \E d \in TickSteps :
          /\ MayAge(d)
          /\ store' = [k \in Keys |-> Aged(store[k], d)]
          /\ served' = [k \in Keys |->
                           IF Truthy(Aged(store[k], d).text) THEN served[k] ELSE NoneV]
          /\ lapsed' = lapsed \cup {k \in Keys : /\ Truthy(store[k].text)
                                                 /\ ~Truthy(Aged(store[k], d).text)}
    /\ UNCHANGED <<created, status, attempts, cause, expire, inflight, last, keygen, codec>>

Next ==
    \/ Startup
    \/ \E w \in SeqWorkers : Begin(w)
    \/ \E w \in SeqWorkers : Finish(w)
    \/ Tick

Spec == Init /\ [][Next]_vars

(***************************************************************************)
(* Concurrent calls: the coroutines of several decorated calls interleave  *)
(* at the await of the handler, so between the lookup of one call and its  *)
(* store any step of another call may happen.  The client was constructed  *)
(* and connected at startup.                                               *)
(***************************************************************************)
ConcInit ==
    /\ created = TRUE
    /\ status = "CONNECTED"
    /\ attempts = 1
    /\ cause = "ping_True"
    /\ expire \in Expirations
    /\ store = [k \in Keys |-> NoEntry]
    /\ inflight = [w \in Workers |-> NoCall]
    /\ last = NoCall
    /\ served = [k \in Keys |-> NoneV]
    /\ lapsed = {}
    /\ keygen = [cur |-> NoKey, prev |-> NoKey]
    /\ codec = Unencoded(NoneValue)

(* the requests of the concurrent calls: one the engine caches and one it  *)
(* passes through                                                          *)
ConcRequests == {Get(<<>>), Post}

ConcBegin(w) == BeginOf(w, ConcRequests)

ConcNext ==
    \/ \E w \in Workers : ConcBegin(w)
    \/ \E w \in Workers : Finish(w)

ConcSpec == ConcInit /\ [][ConcNext]_vars

(***************************************************************************)
(* Concurrent calls while time passes: between the lookup of one call and  *)
(* its store, entries may also age and expire.                             *)
(***************************************************************************)
(* the request of the racing calls: one the engine caches *)
RaceRequests == {Get(<<>>)}

RaceBegin(w) == BeginOf(w, RaceRequests)

RaceNext ==
    \/ \E w \in Workers : RaceBegin(w)
    \/ \E w \in Workers : Finish(w)
    \/ Tick

RaceSpec == ConcInit /\ [][RaceNext]_vars

(***************************************************************************)
(* The key builder on its own: keys are built one after the other from     *)
(* inputs of KeyInputs.                                                    *)
(***************************************************************************)
KeyInit ==
    /\ ProcessStart
    /\ \E inp \in KeyInputs : keygen = [cur |-> Unbuilt(inp), prev |-> NoKey]
    /\ codec = Unencoded(NoneValue)

BuildKey ==
    /\ ~keygen.cur.done
    /\ keygen' = [keygen EXCEPT !.cur = Built(keygen.cur.inp)]
    /\ UNCHANGED <<engine, codec>>

NextKeyCall ==
    /\ keygen.cur.done
    /\ \E inp \in KeyInputs :
          keygen' = [cur |-> Unbuilt(inp), prev |-> keygen.cur]
    /\ UNCHANGED <<engine, codec>>

KeyNext == BuildKey \/ NextKeyCall

KeySpec == KeyInit /\ [][KeyNext]_vars

(***************************************************************************)
(* The serialization helpers on their own: a value of CodecValues is       *)
(* encoded with serialize_json and the text decoded with deserialize_json. *)
(***************************************************************************)
CodecInit ==
    /\ ProcessStart
    /\ keygen = [cur |-> NoKey, prev |-> NoKey]
    /\ \E val \in CodecValues : codec = Unencoded(val)

Encode ==
    /\ codec.stage = "value"
    /\ \E got \in {serialize_json_value(codec.val)} :
          codec' = [codec EXCEPT
                       !.stage = IF got.raised = "none" THEN "encoded" ELSE "failed",
                       !.raised = got.raised,
                       !.text = got.text]
    /\ UNCHANGED <<engine, keygen>>

Decode ==
    /\ codec.stage = "encoded"
    /\ \E got \in {deserialize_json(codec.text)} :
          codec' = [codec EXCEPT
                       !.stage = IF got.raised = "none" THEN "decoded" ELSE "failed",
                       !.raised = got.raised,
                       !.out = got.value]
    /\ UNCHANGED <<engine, keygen>>

CodecNext == Encode \/ Decode

CodecSpec == CodecInit /\ [][CodecNext]_vars

(***************************************************************************)
(* Properties.                                                             *)
(***************************************************************************)
(* a call returned or raised in this step *)
Completes == last' # last /\ last'.path # "none"

PlainGet(request) ==
    request.present /\ request.method = "GET" /\ request.cc = <<>>

(* the handler's result cannot be serialized *)
Unserializable(result) ==
    \E i \in 1..Len(result.of) : serialize_json_raises(result.of[i])

(* the wrapping object add_to_cache builds for a result *)
Wrapped(key, result) ==
    LET messages == [i \in 1..Len(result.of) |-> serialize_json(result.of[i])]
    IN  json_dumps("wrapper",
            <<IF messages # <<>> THEN [k \in {key} |-> messages]
                                 ELSE [k \in {} |-> <<>>]>>)

(* C1: with the store connected, a GET call without Cache-Control that     *)
(* finds no entry invokes the handler once, writes the entry under its key *)
(* and is annotated "Miss"; a call that finds the entry does not invoke    *)
(* the handler, writes nothing and is annotated "Hit"; and a call goes to  *)
(* the handler as a miss only when the store holds no entry for its key.   *)
C1_MissThenHit ==
    [][ /\ (Completes /\ last'.connected /\ PlainGet(last'.req)) =>
              /\ (/\ last'.path = "MISS"
                  /\ ~Unserializable(last'.result)
                  /\ last'.set_ok) =>
                     /\ last'.invoked = 1
                     /\ last'.stores = 1
                     /\ SameText(store'[last'.key].text,
                                 Wrapped(last'.key, last'.result))
                     /\ last'.response.headers.cache = "Miss"
              /\ Truthy(last'.found) =>
                     /\ last'.invoked = 0
                     /\ last'.stores = 0
                     /\ store' = store
                     /\ last'.response.headers.cache = "Hit"
        /\ \A w \in Workers :
              (inflight'[w] # inflight[w] /\ inflight'[w].path = "MISS") =>
                  ~Truthy(store[inflight'[w].key].text)
      ]_vars

(* C1 witness: a plain GET was served as a hit from the entry a miss wrote *)
C1_Witness ==
    /\ last.path = "HIT"
    /\ last.req = Get(<<>>)
    /\ last.invoked = 0
    /\ last.response.headers.cache = "Hit"
    /\ Truthy(served[last.key])

(* C2: the body a cache hit returns is the body the miss that wrote the    *)
(* entry returned.                                                         *)
C2_HitBodyIsMissBody ==
    (last.path = "HIT" /\ last.ret.raised = "none") =>
        SameText(last.ret.content, served[last.key])

(* C3: a call whose request is not a GET, or is a GET whose Cache-Control  *)
(* holds no-cache or no-store, invokes the handler exactly once and issues *)
(* neither a lookup nor a store (the call's arguments fitting the handler).*)
C3_NonCacheableBypass ==
    (/\ last.path # "none"
     /\ last.fits
     /\ last.req.present
     /\ \/ last.req.method # "GET"
        \/ \E i \in 1..Len(last.req.cc) : last.req.cc[i] \in {"no-cache", "no-store"})
    => (last.invoked = 1 /\ last.lookups = 0 /\ last.stores = 0)

(* C4: on a miss whose result cannot be serialized or stored, the call     *)
(* returns the handler's raw result and raises nothing.                    *)
C4_FailureReturnsRaw ==
    (last.path = "MISS" /\ (Unserializable(last.result) \/ ~last.set_ok))
    => (/\ last.ret.raised = "none"
        /\ ~last.ret.is_response
        /\ SameText(last.ret.content, last.result))

(* C5: a miss whose result cannot be serialized issues no store write: the *)
(* store is the same after the call as before it, it holds no entry for    *)
(* the call's key, and no call is served from the cache for a key the      *)
(* store holds no entry for.                                               *)
C5_NoWriteOnSerializationFailure ==
    [][ /\ (Completes /\ last'.path = "MISS" /\ Unserializable(last'.result)) =>
              /\ last'.stores = 0
              /\ store' = store
              /\ ~Truthy(store'[last'.key].text)
        /\ (Completes /\ last'.path \in {"HIT", "NOT_MODIFIED"}) =>
              Truthy(store[last'.key].text)
      ]_vars

(* C5 witness: a miss with an unserializable result has ended, its key has *)
(* no entry and the other key still has its own                            *)
C5_Witness ==
    /\ last.path = "MISS"
    /\ Unserializable(last.result)
    /\ last.stores = 0
    /\ ~Truthy(store[last.key].text)
    /\ \E k \in Keys : k # last.key /\ Truthy(store[k].text)

(* C6: a cache hit whose request carries If-None-Match: * ends NOT_MODIFIED *)
(* with status 304, an empty body and no handler invocation, with or       *)
(* without a response object passed by the caller.                         *)
C6_IfNoneMatchStar ==
    (/\ last.path # "none"
     /\ Truthy(last.found)
     /\ last.req.has_inm
     /\ last.req.inm = <<"*">>)
    => (/\ last.path = "NOT_MODIFIED"
        /\ last.ret.raised = "none"
        /\ last.ret.status_code = 304
        /\ last.ret.content.fmt = "None"
        /\ last.invoked = 0)

(* C7: a cache hit whose If-None-Match is not a lone * ends NOT_MODIFIED or *)
(* serves the cached value, and does not fail.                             *)
C7_IfNoneMatchTags ==
    (/\ last.path # "none"
     /\ Truthy(last.found)
     /\ last.req.has_inm
     /\ last.req.inm # <<"*">>)
    => (last.ret.raised = "none" /\ last.path \in {"NOT_MODIFIED", "HIT"})

(* whole seconds of a non-negative expiration *)
WholeSeconds(e) == IF e.td THEN e.days * 86400 + e.seconds ELSE e.seconds

TtlInputs ==
    Expirations \cup
    { IntExpire(1), IntExpire(31535999), IntExpire(31536000), IntExpire(31536001),
      IntExpire(34560000),
      Timedelta(0, 0, 999999), Timedelta(0, 59, 1), Timedelta(364, 86399, 999999),
      Timedelta(365, 0, 0), Timedelta(365, 0, 1), Timedelta(365, 1, 0) }

(* C8: the TTL is min(expiration in whole seconds, 31536000), and every    *)
(* expiration given to a store write, every TTL the store holds and every  *)
(* max-age written to a response is at most 31536000.                      *)
C8_TtlCapped ==
    /\ \A e \in TtlInputs :
          calculate_ttl(e) = IF WholeSeconds(e) <= 31536000 THEN WholeSeconds(e)
                             ELSE 31536000
    /\ last.ex <= 31536000
    /\ last.response.headers.max_age <= 31536000
    /\ \A k \in Keys : store[k].ttl <= 31536000

(* C8 witness: a 400-day expiration was written with the capped TTL *)
C8_Witness ==
    /\ expire = Timedelta(400, 0, 0)
    /\ last.path = "MISS"
    /\ last.stores = 1
    /\ last.ex = 31536000
    /\ last.response.headers.max_age = 31536000
    /\ store[last.key].ttl = 31536000

(* C9, as claimed: a call without a request object takes PASSTHROUGH, the  *)
(* handler is invoked directly and no lookup or store is issued, even when *)
(* the store is connected (the call's arguments fitting the handler).      *)
C9_NoRequestPassthrough ==
    (last.path # "none" /\ last.fits /\ ~last.req.present /\ last.connected)
    => (/\ last.path = "PASSTHROUGH"
        /\ last.invoked = 1
        /\ last.lookups = 0
        /\ last.stores = 0)

(* C9, amended: a call without a request object, its arguments fitting the *)
(* handler, is not exempt from caching: when the client is connected it    *)
(* issues one lookup and is then a hit that does not invoke the handler or *)
(* a miss that does; it takes PASSTHROUGH only when the client is not      *)
(* connected.                                                              *)
C9_NoRequestIsCached ==
    (last.path # "none" /\ last.fits /\ ~last.req.present)
    => /\ last.connected =>
            /\ last.lookups = 1
            /\ last.path \in {"HIT", "MISS"}
            /\ last.invoked = (IF last.path = "MISS" THEN 1 ELSE 0)
            /\ (last.path = "HIT") = Truthy(last.found)
       /\ last.path = "PASSTHROUGH" =>
            /\ ~last.connected
            /\ last.invoked = 1
            /\ last.lookups = 0
            /\ last.stores = 0

(* C9 witness: a call without a request object was served from the cache *)
C9_Witness ==
    /\ last.path = "HIT"
    /\ ~last.req.present
    /\ last.connected
    /\ last.invoked = 0
    /\ last.lookups = 1

(* C10: the connection is attempted once per process; once the status is   *)
(* AUTH_ERROR or CONN_ERROR it never changes, no later call connects       *)
(* again, and every later call takes PASSTHROUGH.                          *)
C10_ConnectOnce ==
    [][ /\ attempts' <= 1
        /\ status \in {"AUTH_ERROR", "CONN_ERROR"} =>
              /\ status' = status
              /\ attempts' = attempts
              /\ Completes => last'.path = "PASSTHROUGH"
      ]_vars

(* C11: a connection or transport failure never surfaces from a decorated  *)
(* call: no call ends with a connection or authentication error, and a     *)
(* call made while the client is not connected, its arguments fitting the  *)
(* handler, takes PASSTHROUGH and returns the handler's result.            *)
C11_ConnectionFailureNeverSurfaces ==
    (last.path # "none") =>
        /\ last.ret.raised \notin {"ConnectionError", "AuthenticationError"}
        /\ (~last.connected /\ last.fits) =>
              /\ last.path = "PASSTHROUGH"
              /\ last.ret.raised = "none"
              /\ SameText(last.ret.content, last.result)

(* the server refused the credentials of the latest connection attempt *)
AuthenticationFailed ==
    cause \in {"ctor_AuthenticationError", "ping_AuthenticationError"}

(* the transport failed in the latest connection attempt *)
TransportFailed ==
    cause \in {"ctor_ConnectionError", "ping_ConnectionError"}

(* C12: the status tells the cause of a failed connection attempt: an      *)
(* authentication failure yields AUTH_ERROR, a transport failure yields    *)
(* CONN_ERROR, and CONN_ERROR is never the status after an authentication  *)
(* failure.                                                                *)
C12_FailureCauseInStatus ==
    /\ AuthenticationFailed => status = "AUTH_ERROR"
    /\ TransportFailed => status = "CONN_ERROR"
    /\ status = "CONN_ERROR" => ~AuthenticationFailed

(* the request of a call is one the engine caches: none, or a GET without  *)
(* no-cache and no-store                                                   *)
CacheableRequest(request) ==
    \/ ~request.present
    \/ /\ request.method = "GET"
       /\ \A i \in 1..Len(request.cc) : request.cc[i] \notin {"no-cache", "no-store"}

(* C16: a cacheable call (client connected, request cacheable) whose       *)
(* arguments do not match the handler's signature raises the binding       *)
(* error, never runs the handler and issues no lookup and no store.        *)
C16_BindingErrorPropagates ==
    (/\ last.path # "none"
     /\ last.connected
     /\ CacheableRequest(last.req)
     /\ ~last.fits)
    => (/\ last.ret.raised = "TypeError"
        /\ last.invoked = 0
        /\ last.lookups = 0
        /\ last.stores = 0)

(* C16 witness: with an entry in the store, a cacheable call with          *)
(* mismatching arguments ended with the binding error and no lookup        *)
C16_Witness ==
    /\ last.path = "BIND"
    /\ last.connected
    /\ last.req = Get(<<>>)
    /\ ~last.fits
    /\ last.ret.raised = "TypeError"
    /\ last.lookups = 0
    /\ \E k \in Keys : Truthy(store[k].text)

(* both keys of the key builder are built *)
TwoKeys == keygen.cur.done /\ keygen.prev.done

(* one sequence holds the entries of the other, in any order *)
IsPermutation(a, b) ==
    /\ Len(a) = Len(b)
    /\ \A i \in 1..Len(a) : \E j \in 1..Len(b) : a[i] = b[j]

BoundArgs(inp) == get_func_args(handler.params, inp.args, inp.kwargs).arguments

(* the i-th parameter of the handler takes part in the key of the input *)
InKey(inp, i) ==
    handler.params[i].annotation \notin (inp.ignore \cup ALWAYS_IGNORE_ARG_TYPES)

(* C14: for one function, prefix and ignored-type set, two calls whose     *)
(* bound arguments differ in the value of exactly one parameter that is    *)
(* not ignored get different keys.                                         *)
C14_ValueChangesKey ==
    (/\ TwoKeys
     /\ keygen.cur.raised = "none"
     /\ keygen.prev.raised = "none"
     /\ keygen.cur.inp.prefix = keygen.prev.inp.prefix
     /\ keygen.cur.inp.ignore = keygen.prev.inp.ignore
     /\ \E i \in 1..Len(handler.params) :
           /\ InKey(keygen.cur.inp, i)
           /\ BoundArgs(keygen.cur.inp)[i].val # BoundArgs(keygen.prev.inp)[i].val
           /\ \A j \in 1..Len(handler.params) :
                 j # i => BoundArgs(keygen.cur.inp)[j].val
                              = BoundArgs(keygen.prev.inp)[j].val)
    => keygen.cur.key # keygen.prev.key

(* C15: decoding the encoded form of a supported value gives the value     *)
(* back: neither step raises, and the decoded value is the value encoded.  *)
C15_RoundTrip ==
    (codec.stage \in {"failed", "decoded"}) =>
        /\ codec.raised = "none"
        /\ codec.out = codec.val

(* a stored entry holds, in the list under its key, an object with an      *)
(* envelope whose type tag the decoder does not know                       *)
HoldsUnknownTag(text) ==
    /\ text.shape = "wrapper"
    /\ \E k \in DOMAIN text.of[1] :
          \E i \in 1..Len(text.of[1][k]) :
              LoadsRaises(DictV(text.of[1][k][i].of[1]))

(* C17: a call that finds an entry holding an envelope with an             *)
(* unrecognized type tag fails with the decoder's error: the entry is not  *)
(* served as a hit body.                                                   *)
C17_UnknownTagFails ==
    (/\ last.path # "none"
     /\ Truthy(last.found)
     /\ HoldsUnknownTag(last.found))
    => (/\ last.ret.raised = "TypeError"
        /\ last.ret.content.fmt = "None")

(* the headers the caller of a finished call receives: those of the        *)
(* response object it passed in, or those of the response returned to it   *)
Delivered(call) ==
    IF call.passed THEN call.response.headers ELSE call.ret.headers

(* C18: a call that reached a cache decision and returned delivers the     *)
(* indicator header ("Hit" on a hit or not-modified, "Miss" on a miss)     *)
(* with Expires and max-age, whether or not the caller passed a response   *)
(* object; a PASSTHROUGH call delivers no cache header and status 200.     *)
C18_HeadersDelivered ==
    (last.path # "none" /\ last.ret.raised = "none") =>
        /\ last.path \in {"HIT", "NOT_MODIFIED"} =>
              /\ Delivered(last).cache = "Hit"
              /\ Delivered(last).max_age >= 0
              /\ Delivered(last).expires_in >= 0
        /\ last.path = "MISS" =>
              /\ Delivered(last).cache = "Miss"
              /\ Delivered(last).max_age >= 0
              /\ Delivered(last).expires_in >= 0
        /\ last.path = "PASSTHROUGH" =>
              /\ Delivered(last) = NoHeaders
              /\ last.ret.status_code = HTTP_OK

(* C19: every value the store holds under a key k is a wrapping object     *)
(* with exactly one entry, named k, whose value is the list of serialized  *)
(* objects; and the value a miss writes for its result is that object for  *)
(* the result's objects in order, for single objects, non-empty and empty  *)
(* collections alike.                                                      *)
C19_StoredShape ==
    /\ \A k \in Keys :
          Truthy(store[k].text) =>
              /\ store[k].text.fmt = "json"
              /\ store[k].text.shape = "wrapper"
              /\ DOMAIN store[k].text.of[1] = {k}
              /\ \A i \in 1..Len(store[k].text.of[1][k]) :
                    /\ store[k].text.of[1][k][i].fmt = "json"
                    /\ store[k].text.of[1][k][i].shape = "dict"
    /\ (/\ last.path = "MISS" /\ last.stores = 1 /\ last.set_ok
        /\ Truthy(store[last.key].text)) =>
          /\ DOMAIN store[last.key].text.of[1] = {last.key}
          /\ store[last.key].text.of[1][last.key]
                = [i \in 1..Len(last.result.of) |-> serialize_json(last.result.of[i])]

(* C20: with calls interleaving, every call issues at most one lookup and  *)
(* at most one store; the store holds under a key nothing or the complete  *)
(* wrapping object of one handler result; and whenever the value under a   *)
(* key changes, it becomes the wrapping object of the result of the call   *)
(* that just returned, whatever was there before: the last write wins.     *)
C20_ConcurrentWrites ==
    [][ /\ last'.lookups <= 1 /\ last'.stores <= 1
        /\ \A w \in Workers :
              inflight'[w].lookups <= 1 /\ inflight'[w].stores = 0
        /\ \A k \in Keys :
              /\ Truthy(store'[k].text) =>
                    \E r \in Results :
                        /\ ~Unserializable(r)
                        /\ store'[k].text = Wrapped(k, r)
              /\ store'[k] # store[k] =>
                    /\ last'.path = "MISS"
                    /\ last'.key = k
                    /\ last'.stores = 1
                    /\ store'[k].text = Wrapped(k, last'.result)
        /\ (/\ last' # last
            /\ last'.path = "MISS"
            /\ last'.set_ok
            /\ ~Unserializable(last'.result)) =>
                  store'[last'.key].text = Wrapped(last'.key, last'.result)
      ]_vars

(* C20 witness: two calls missed on one key; one has written its result    *)
(* over an entry that was not there at its lookup, the other is still at   *)
(* its await and will write as well                                        *)
C20_Witness ==
    \E w \in Workers :
        /\ inflight[w].path = "MISS"
        /\ last.path = "MISS"
        /\ last.key = inflight[w].key
        /\ ~Truthy(last.found)
        /\ ~Truthy(inflight[w].found)
        /\ last.stores = 1
        /\ store[last.key].text = Wrapped(last.key, last.result)
        /\ last.result.shape = "list"

(***************************************************************************)
(* C21: a lookup returns the value and the remaining TTL of one store      *)
(* state, whatever expiry and writes of other calls interleave: a call     *)
(* served from the cache found the text the store holds under its key,     *)
(* never with the TTL of an absent key, and the max-age it writes is the   *)
(* remaining TTL of that entry; a call that found nothing saw the key      *)
(* absent.                                                                 *)
(***************************************************************************)
C21_LookupIsAtomic ==
    [][/\ (last' # last /\ last'.path \in {"HIT", "NOT_MODIFIED"}) =>
            /\ Truthy(last'.found)
            /\ last'.found = store[last'.key].text
            /\ store[last'.key].ttl # KEY_ABSENT_TTL
            /\ last'.response.headers.cache = "Hit"
            /\ last'.response.headers.max_age = store[last'.key].ttl
       /\ \A w \in Workers :
            (inflight'[w] # inflight[w] /\ inflight'[w].path = "MISS") =>
               /\ ~Truthy(inflight'[w].found)
               /\ store[inflight'[w].key] = NoEntry]_vars

(* a hit on an entry that has aged, while another call that missed the     *)
(* same key is still awaiting its handler                                  *)
C21_Witness ==
    /\ last.path = "HIT"
    /\ last.response.headers.max_age = store[last.key].ttl
    /\ last.response.headers.max_age < calculate_ttl(expire)
    /\ \E w \in Workers : inflight[w].path = "MISS" /\ inflight[w].key = last.key

(***************************************************************************)
(* C22: every entry is written with an expiration, so none outlives its    *)
(* TTL: a stored entry always has a remaining TTL between one second and   *)
(* the TTL of the decorator, and a key whose entry expired holds nothing;  *)
(* a call served from the cache is served from an entry still alive; the   *)
(* next cacheable call on a key whose entry expired misses and invokes the *)
(* handler, and when its result serializes and the store accepts the set   *)
(* the result is stored again with the full TTL.                           *)
(***************************************************************************)
C22_NoEntryOutlivesTtl ==
    [][/\ \A k \in Keys :
            /\ Truthy(store'[k].text) =>
                  /\ store'[k].ttl >= 1
                  /\ store'[k].ttl <= calculate_ttl(expire)
            /\ k \in lapsed' => store'[k] = NoEntry
       /\ (last' # last /\ last'.path \in {"HIT", "NOT_MODIFIED"}) =>
            /\ last'.key \notin lapsed
            /\ Truthy(store[last'.key].text)
            /\ store[last'.key].ttl >= 1
       /\ \A w \in Workers :
            (inflight'[w] # inflight[w] /\ inflight'[w].key \in lapsed) =>
               /\ inflight'[w].path = "MISS"
               /\ inflight'[w].lapsed
               /\ inflight'[w].invoked = 1
               /\ ~Truthy(inflight'[w].found)
       /\ (last' # last /\ last'.lapsed) =>
            /\ last'.path = "MISS"
            /\ last'.lookups = 1
            /\ last'.invoked = 1
            /\ (~Unserializable(last'.result) /\ last'.set_ok) =>
                  /\ last'.stores = 1
                  /\ store'[last'.key].text = Wrapped(last'.key, last'.result)
                  /\ store'[last'.key].ttl = calculate_ttl(expire)
                  /\ last'.key \notin lapsed']_vars

(* the entry of a key had expired; the next call on the key missed,        *)
(* invoked the handler and stored its result again with the full TTL       *)
C22_Witness ==
    /\ last.path = "MISS"
    /\ last.lapsed
    /\ last.invoked = 1
    /\ ~Truthy(last.found)
    /\ last.stores = 1
    /\ last.key \notin lapsed
    /\ store[last.key].text = Wrapped(last.key, last.result)
    /\ store[last.key].ttl = calculate_ttl(expire)
====
